---- MODULE Spec2Model ----
(***************************************************************************)
(* The pull_request webhook handler of gh-app-local, in its two variants:  *)
(* src/index.js (required-file checks, comment on the pull request) and    *)
(* src/unnamed/part_000 (demo compliance engine, no comment).              *)
(*                                                                         *)
(* One step of the model is what the handler runs between two awaits: a    *)
(* remote call returns (or fails), and the handler runs on, synchronously, *)
(* up to the next request it issues.  A request that fails has no effect   *)
(* on the remote side; a request that succeeds has its effect when it      *)
(* returns.                                                                *)
(*                                                                         *)
(* A JavaScript string built by a template literal or a join is modelled   *)
(* as the sequence of its pieces (literals and interpolated values), in    *)
(* order.  The emoji and the dash of the source literals are written in   *)
(* ASCII: [v], [x] and --.                                                 *)
(***************************************************************************)
EXTENDS FiniteSets, Integers, Sequences, TLC

\* Number of webhook deliveries the transport hands to the handler.
MaxEvents == 1
\* Longest sequence of rule results given to the renderers on their own.
MaxRows == 3

Events == 1..MaxEvents

VARIABLES
  variant,     \* which source file is running: "index" or "part_000"
  payload,     \* payload[e]: the decoded webhook payload of delivery e
  pc,          \* pc[e]: the await the handler of e is suspended at
  resp,        \* resp[e][i]: HTTP status answered to rule query i, 0 = none yet
  check,       \* check[e]: check.id, the id the creation request returned, 0 = none
  rows,        \* rows[e]: `existence` (index.js) / `checks` (part_000)
  sent,        \* sent[e]: the remote requests the handler of e has issued
  replies,     \* replies[e]: outcome of each awaited call but the rule queries
  log,         \* log[e]: console lines of the handler of e
  checkRuns,   \* remote: check runs, checkRuns[id]
  comments,    \* remote: issue comments, in posting order
  arrived,     \* arrived[e]: the rule queries of e in the order they were answered
  previous,    \* previous[e]: what an earlier run of the same delivery sent
  rendering    \* renderComment applied on its own: input rows, output

vars == <<variant, payload, pc, resp, check, rows, sent, replies, log, checkRuns, comments,
          arrived, previous, rendering>>

handlerVars == <<variant, payload, pc, resp, check, rows, sent, replies, log, checkRuns, comments,
                 arrived, previous>>

----------------------------------------------------------------------------
\* Strings as sequences of pieces.

RECURSIVE Join(_, _)
\* Array.prototype.join: parts is a sequence of piece sequences.
Join(parts, sep) ==
  IF Len(parts) = 0 THEN <<>>
  ELSE IF Len(parts) = 1 THEN parts[1]
  ELSE parts[1] \o <<sep>> \o Join(Tail(parts), sep)

Range(s) == {s[i] : i \in 1..Len(s)}

----------------------------------------------------------------------------
\* Renderers of src/index.js.

renderRow(r) ==
  <<"| ", r.name, " | ", IF r.pass THEN "[v] Present" ELSE "[x] Missing", " | ",
    r.notes, " |">>

renderTable(rs) ==
  <<"| Check | Result | Notes |\n|---|---|---|\n">> \o Join([i \in 1..Len(rs) |-> renderRow(rs[i])], "\n")

missingNames(rs) ==
  LET failing == SelectSeq(rs, LAMBDA r : ~r.pass)
  IN [i \in 1..Len(failing) |-> <<failing[i].name>>]

\* renderComment with the filter inverted: it lists the rules that pass.
renderCommentPassNames(rs) ==
  LET passing == SelectSeq(rs, LAMBDA r : r.pass)
      missing == [i \in 1..Len(passing) |-> <<passing[i].name>>]
      header == IF Len(missing) = 0
                THEN <<"[v] **Compliance PASSED** -- All required files are present.">>
                ELSE <<"[x] **Compliance FAILED** -- Missing: ">> \o Join(missing, ", ")
  IN header \o <<"\n\n">> \o renderTable(rs)

renderComment(rs) ==
  LET missing == missingNames(rs)
      header == IF Len(missing) = 0
                THEN <<"[v] **Compliance PASSED** -- All required files are present.">>
                ELSE <<"[x] **Compliance FAILED** -- Missing: ">> \o Join(missing, ", ")
  IN header \o <<"\n\n">> \o renderTable(rs)

----------------------------------------------------------------------------
\* Event filter.

Actions == {"opened", "reopened", "synchronize", "closed", "labeled"}

Fields == {"installation", "owner", "repo", "sha", "number"}

\* The payload of delivery e, with one field (or none) absent.  An absent
\* number reads as 0 and an absent string as "": both are falsy, as undefined is.
MkPayload(e, action, missing) ==
  [ action          |-> action,
    installation_id |-> IF missing = "installation" THEN 0 ELSE 100 + e,
    owner           |-> IF missing = "owner" THEN "" ELSE "acme",
    repo            |-> IF missing = "repo" THEN "" ELSE "widgets",
    head_sha        |-> IF missing = "sha" THEN "" ELSE "sha-" \o ToString(e),
    number          |-> IF missing = "number" THEN 0 ELSE e ]

NoPayload == MkPayload(0, "", "none")

\* No action filter: every action is handled.
ActionableAny(action) == TRUE

Actionable(action) == action \in {"opened", "reopened", "synchronize"}

Malformed(v, p) ==
  \/ p.installation_id = 0
  \/ p.owner = ""
  \/ p.repo = ""
  \/ p.head_sha = ""
  \/ (v = "index" /\ p.number = 0)

----------------------------------------------------------------------------
\* Verification.

targets == <<"README.md", "CONTRIBUTING.md">>

\* Statuses the contents API answers a rule query with.
RuleStatuses == {200, 404, 500}

\* A fileExists that swallows every error as "absent".
fileExistsSwallow(status) ==
  [threw |-> FALSE, value |-> status = 200]

\* A fileExists without the 404 case: every error is rethrown.
fileExistsRethrow(status) ==
  [threw |-> status # 200, value |-> status = 200]

\* fileExists: true on a response, false on a 404 error, rethrows any other.
fileExists(status) ==
  IF status = 200 THEN [threw |-> FALSE, value |-> TRUE]
  ELSE IF status = 404 THEN [threw |-> FALSE, value |-> FALSE]
  ELSE [threw |-> TRUE, value |-> FALSE]

existence(rs) ==
  [i \in 1..Len(targets) |->
     [name |-> targets[i], pass |-> fileExists(rs[i]).value, notes |-> "Checked at repo root"]]

checks(compliant) ==
  << [name |-> "No Critical Vulns", pass |-> compliant,
      description |-> IF compliant THEN "OK" ELSE "Found 1 critical (demo)"],
     [name |-> "License Policy", pass |-> TRUE, description |-> "OK"],
     [name |-> "Sonar Quality Gate", pass |-> TRUE, description |-> "OK"] >>

checksTable(cs) ==
  <<"| Check | Result | Notes |\n|---|---|---|\n">>
    \o Join([i \in 1..Len(cs) |->
               <<"| ", cs[i].name, " | ", IF cs[i].pass THEN "[v]" ELSE "[x]", " | ",
                 cs[i].description, " |">>], "\n")

passedCount(rs) == Len(SelectSeq(rs, LAMBDA r : r.pass))

\* some() in place of every().
allPassSome(rs) == \E i \in 1..Len(rs) : rs[i].pass

allPass(rs) == \A i \in 1..Len(rs) : rs[i].pass

conclusionOf(pass) == IF pass THEN "success" ELSE "failure"

----------------------------------------------------------------------------
\* Requests.

AuthRequest(p) == [kind |-> "auth", installationId |-> p.installation_id]

CreateRequest(p) ==
  [ kind |-> "POST check-runs", owner |-> p.owner, repo |-> p.repo,
    name |-> "Compliance", head_sha |-> p.head_sha, status |-> "in_progress" ]

QueryRequest(p, path) ==
  [ kind |-> "GET contents", owner |-> p.owner, repo |-> p.repo,
    path |-> path, ref |-> p.head_sha ]

\* The PATCH of the try block; site is the place in the handler that sends it.
\* In part_000 `compliant` is the pass of the first check, the only one it sets.
ComputedUpdate(v, p, id, rs) ==
  [ kind |-> "PATCH check-run", site |-> "try", owner |-> p.owner, repo |-> p.repo,
    check_run_id |-> id, status |-> "completed",
    conclusion |-> conclusionOf(IF v = "index" THEN allPass(rs) ELSE rs[1].pass),
    output |->
      IF v = "index"
      THEN [ title   |-> <<"Compliance (files): ", IF allPass(rs) THEN "PASSED" ELSE "FAILED">>,
             summary |-> <<ToString(passedCount(rs)), " / ", ToString(Len(rs)),
                           " required files present">>,
             text    |-> <<"### Required files\n">> \o renderTable(rs) ]
      ELSE [ title   |-> <<"Compliance: ", IF rs[1].pass THEN "PASSED" ELSE "FAILED">>,
             summary |-> <<ToString(passedCount(rs)), " / ", ToString(Len(rs)),
                           " checks passed">>,
             text    |-> <<"### Checks\n">> \o checksTable(rs) ] ]

ErrorOutput(v) ==
  IF v = "index"
  THEN [ title   |-> <<"Compliance (files): ERROR">>,
         summary |-> <<"Error while performing required-file checks">>,
         text    |-> <<"See app logs for details.">> ]
  ELSE [ title   |-> <<"Compliance: ERROR">>,
         summary |-> <<"Compliance run failed">>,
         text    |-> <<"See server logs for details.">> ]

\* A fallback that reports the check as passed.
FallbackUpdatePass(v, p, id) ==
  [ kind |-> "PATCH check-run", site |-> "catch", owner |-> p.owner, repo |-> p.repo,
    check_run_id |-> id, status |-> "completed", conclusion |-> "success",
    output |-> ErrorOutput(v) ]

\* The fallback addressed to the newest check run of the repository instead
\* of the one this handler created.
FallbackUpdateLatest(v, p, id) ==
  [ kind |-> "PATCH check-run", site |-> "catch", owner |-> p.owner, repo |-> p.repo,
    check_run_id |-> Len(checkRuns), status |-> "completed", conclusion |-> "failure",
    output |-> ErrorOutput(v) ]

\* The PATCH of the catch block.
FallbackUpdate(v, p, id) ==
  [ kind |-> "PATCH check-run", site |-> "catch", owner |-> p.owner, repo |-> p.repo,
    check_run_id |-> id, status |-> "completed", conclusion |-> "failure",
    output |-> ErrorOutput(v) ]

CommentRequest(p, rs) ==
  [ kind |-> "POST comment", owner |-> p.owner, repo |-> p.repo,
    issue_number |-> p.number, body |-> renderComment(rs) ]

Info(msg) == [level |-> "log", msg |-> msg]

Error(msg) == [level |-> "error", msg |-> msg]

----------------------------------------------------------------------------
\* The remote side.

NewCheckRun(req) ==
  [ owner |-> req.owner, repo |-> req.repo, name |-> req.name, head_sha |-> req.head_sha,
    status |-> req.status, conclusion |-> "null",
    output |-> [title |-> <<>>, summary |-> <<>>, text |-> <<>>],
    applied |-> <<>> ]

\* applied keeps the update requests the remote side has carried out, in order.
ApplyUpdate(runs, req) ==
  [runs EXCEPT ![req.check_run_id] =
     [@ EXCEPT !.status = req.status, !.conclusion = req.conclusion,
               !.output = req.output, !.applied = Append(@, req)]]

Last(s) == s[Len(s)]

----------------------------------------------------------------------------
\* The handler.

Put(f, e, x) == [f EXCEPT ![e] = Append(@, x)]

Goto(e, label) == pc' = [pc EXCEPT ![e] = label]

\* The call the handler awaits (its latest request) returns or fails.
Reply(e, ok) == replies' = Put(replies, e, [req |-> Len(sent[e]), ok |-> ok])

\* A catch block that only logs the error and lets the handler return.
EnterCatchLogOnly(e) ==
  /\ log' = Put(log, e, Error(IF variant = "index" THEN "Error during file checks:"
                                                    ELSE "Error during compliance run:"))
  /\ Goto(e, "returned")
  /\ UNCHANGED sent

\* The catch block: log the error, send the fallback PATCH, await it.
EnterCatch(e) ==
  /\ log' = Put(log, e, Error(IF variant = "index" THEN "Error during file checks:"
                                                    ELSE "Error during compliance run:"))
  /\ sent' = Put(sent, e, FallbackUpdate(variant, payload[e], check[e]))
  /\ Goto(e, "fallback")

\* The transport calls the handler with a decoded payload; the handler runs
\* to its first await (or returns).
Deliver(e, action, missing) ==
  /\ pc[e] = "idle"
  /\ LET p == MkPayload(e, action, missing) IN
       /\ payload' = [payload EXCEPT ![e] = p]
       /\ IF ~Actionable(p.action)
          THEN Goto(e, "returned") /\ UNCHANGED <<log, sent>>
          ELSE IF Malformed(variant, p)
          THEN /\ log' = [log EXCEPT ![e] =
                            IF variant = "index"
                            THEN @ \o <<Info("PR event")>>
                            ELSE @ \o <<Info("PR event"),
                                        Error("Missing required fields from webhook payload")>>]
               /\ Goto(e, "returned")
               /\ UNCHANGED sent
          ELSE /\ log' = Put(log, e, Info("PR event"))
               /\ sent' = Put(sent, e, AuthRequest(p))
               /\ Goto(e, "auth")
  /\ UNCHANGED <<variant, resp, check, rows, replies, checkRuns, comments, rendering, arrived, previous>>

\* A rejected await outside the try block rejects the handler's promise.
OnAuthError(e) == Goto(e, "threw") /\ UNCHANGED <<sent, log>>

AuthReturn(e, ok) ==
  /\ pc[e] = "auth"
  /\ Reply(e, ok)
  /\ IF ok
     THEN /\ sent' = Put(sent, e, CreateRequest(payload[e]))
          /\ Goto(e, "create")
          /\ UNCHANGED log
     ELSE OnAuthError(e)
  /\ UNCHANGED <<variant, payload, resp, check, rows, checkRuns, comments, rendering, arrived, previous>>

\* The creation request awaited inside the try block.
OnCreateErrorCaught(e) == EnterCatch(e)

OnCreateError(e) == Goto(e, "threw") /\ UNCHANGED <<sent, log>>

CreateReturn(e, ok) ==
  /\ pc[e] = "create"
  /\ Reply(e, ok)
  /\ IF ok
     THEN LET id == Len(checkRuns) + 1 IN
          /\ checkRuns' = Append(checkRuns, NewCheckRun(Last(sent[e])))
          /\ check' = [check EXCEPT ![e] = id]
          /\ IF variant = "index"
             THEN /\ sent' = [sent EXCEPT ![e] =
                                @ \o [i \in 1..Len(targets) |-> QueryRequest(payload[e], targets[i])]]
                  /\ Goto(e, "rules")
                  /\ UNCHANGED log
             ELSE /\ log' = Put(log, e, Info("[checks] in_progress created"))
                  /\ Goto(e, "timer")
                  /\ UNCHANGED sent
     ELSE OnCreateError(e) /\ UNCHANGED <<check, checkRuns>>
  /\ UNCHANGED <<variant, payload, resp, rows, comments, rendering, arrived, previous>>

\* Results collected as the answers come in, not by position.
joinedInArrivalOrder(e) ==
  [k \in 1..Len(arrived'[e]) |-> existence(resp'[e])[arrived'[e][k]]]

\* The array Promise.all fulfils with when the last rule query of e is answered
\* in this step, in the order it was handed the promises.
joined(e) == existence(resp'[e])

\* index.js: the contents API answers rule query i.  Promise.all rejects at
\* the first rejection and fulfils when every query has; an answer that comes
\* after the handler has left the await is dropped.
RuleResponse(e, i, status) ==
  /\ variant = "index"
  /\ check[e] # 0
  /\ resp[e][i] = 0
  /\ resp' = [resp EXCEPT ![e][i] = status]
  /\ arrived' = Put(arrived, e, i)
  /\ IF pc[e] # "rules"
     THEN UNCHANGED <<pc, rows, sent, log>>
     ELSE IF fileExists(status).threw
     THEN EnterCatch(e) /\ UNCHANGED rows
     ELSE IF \A j \in 1..Len(targets) : resp'[e][j] # 0
     THEN LET ex == joined(e) IN
          /\ rows' = [rows EXCEPT ![e] = ex]
          /\ sent' = Put(sent, e, ComputedUpdate(variant, payload[e], check[e], ex))
          /\ Goto(e, "finalize")
          /\ UNCHANGED log
     ELSE UNCHANGED <<pc, rows, sent, log>>
  /\ UNCHANGED <<variant, payload, check, replies, checkRuns, comments, rendering, previous>>

\* part_000: the 2 s timer fires and Math.random() decides `compliant`.
TimerFires(e, compliant) ==
  /\ pc[e] = "timer"
  /\ rows' = [rows EXCEPT ![e] = checks(compliant)]
  /\ sent' = Put(sent, e, ComputedUpdate(variant, payload[e], check[e], checks(compliant)))
  /\ Goto(e, "finalize")
  /\ UNCHANGED <<variant, payload, resp, check, replies, log, checkRuns, comments, rendering, arrived, previous>>

\* The PATCH of the try block with its failure ignored: the comment follows
\* whatever the answer was.
FinalizeReturnUnchecked(e, ok) ==
  /\ pc[e] = "finalize"
  /\ Reply(e, ok)
  /\ checkRuns' = IF ok THEN ApplyUpdate(checkRuns, Last(sent[e])) ELSE checkRuns
  /\ IF variant = "index"
     THEN /\ sent' = Put(sent, e, CommentRequest(payload[e], rows[e]))
          /\ Goto(e, "comment")
          /\ UNCHANGED log
     ELSE /\ log' = Put(log, e, Info("[checks] completed"))
          /\ Goto(e, "returned")
          /\ UNCHANGED sent
  /\ UNCHANGED <<variant, payload, resp, check, rows, comments, rendering, arrived, previous>>

\* The PATCH of the try block returns.
FinalizeReturn(e, ok) ==
  /\ pc[e] = "finalize"
  /\ Reply(e, ok)
  /\ IF ok
     THEN /\ checkRuns' = ApplyUpdate(checkRuns, Last(sent[e]))
          /\ IF variant = "index"
             THEN /\ sent' = Put(sent, e, CommentRequest(payload[e], rows[e]))
                  /\ Goto(e, "comment")
                  /\ UNCHANGED log
             ELSE /\ log' = Put(log, e, Info("[checks] completed"))
                  /\ Goto(e, "returned")
                  /\ UNCHANGED sent
     ELSE EnterCatch(e) /\ UNCHANGED checkRuns
  /\ UNCHANGED <<variant, payload, resp, check, rows, comments, rendering, arrived, previous>>

\* index.js: the comment POST returns.
CommentReturn(e, ok) ==
  /\ pc[e] = "comment"
  /\ Reply(e, ok)
  /\ IF ok
     THEN /\ comments' = Append(comments, Last(sent[e]))
          /\ log' = Put(log, e, Info("[checks] completed & commented"))
          /\ Goto(e, "returned")
          /\ UNCHANGED sent
     ELSE EnterCatch(e) /\ UNCHANGED comments
  /\ UNCHANGED <<variant, payload, resp, check, rows, checkRuns, rendering, arrived, previous>>

\* The PATCH of the catch block returns; its failure is swallowed.
FallbackReturn(e, ok) ==
  /\ pc[e] = "fallback"
  /\ Reply(e, ok)
  /\ ok => Last(sent[e]).check_run_id \in DOMAIN checkRuns
  /\ checkRuns' = IF ok THEN ApplyUpdate(checkRuns, Last(sent[e])) ELSE checkRuns
  /\ log' = IF ~ok /\ variant = "part_000"
            THEN Put(log, e, Error("Also failed to update check run:"))
            ELSE log
  /\ Goto(e, "returned")
  /\ UNCHANGED <<variant, payload, resp, check, rows, sent, comments, rendering, arrived, previous>>

\* What is kept of a run of the handler that has ended.
NoRun == [ran |-> FALSE, payload |-> NoPayload, resp |-> <<>>, updates |-> <<>>]

\* The transport delivers the same event again (same payload, same head SHA)
\* after a first run in which every call succeeded: the first handler is
\* over, its requests are kept in previous[e], and a new invocation starts
\* with Deliver.
Redeliver(e) ==
  /\ pc[e] = "returned"
  /\ ~previous[e].ran
  /\ check[e] # 0
  /\ \A k \in 1..Len(replies[e]) : replies[e][k].ok
  /\ previous' = [previous EXCEPT ![e] =
                    [ran |-> TRUE, payload |-> payload[e], resp |-> resp[e],
                     updates |-> SelectSeq(sent[e], LAMBDA r : r.kind = "PATCH check-run")]]
  /\ pc' = [pc EXCEPT ![e] = "idle"]
  /\ resp' = [resp EXCEPT ![e] = [i \in 1..Len(targets) |-> 0]]
  /\ check' = [check EXCEPT ![e] = 0]
  /\ rows' = [rows EXCEPT ![e] = <<>>]
  /\ sent' = [sent EXCEPT ![e] = <<>>]
  /\ replies' = [replies EXCEPT ![e] = <<>>]
  /\ log' = [log EXCEPT ![e] = <<>>]
  /\ arrived' = [arrived EXCEPT ![e] = <<>>]
  /\ UNCHANGED <<variant, payload, checkRuns, comments, rendering>>

----------------------------------------------------------------------------
\* renderComment on its own, over every short sequence of rule results.

RuleNames == {"README.md", "CONTRIBUTING.md", "LICENSE"}

RuleResult == [name : RuleNames, pass : BOOLEAN, notes : {"Checked at repo root"}]

Verdicts == UNION {[1..n -> RuleResult] : n \in 0..MaxRows}

NotRendered == [rows |-> <<>>, done |-> FALSE, comment |-> <<>>]

Render ==
  /\ ~rendering.done
  /\ rendering' = [rendering EXCEPT !.done = TRUE, !.comment = renderComment(rendering.rows)]
  /\ UNCHANGED handlerVars

----------------------------------------------------------------------------
\* Specifications.

InitHandlers ==
  /\ variant \in {"index", "part_000"}
  /\ payload = [e \in Events |-> NoPayload]
  /\ pc = [e \in Events |-> "idle"]
  /\ resp = [e \in Events |-> [i \in 1..Len(targets) |-> 0]]
  /\ check = [e \in Events |-> 0]
  /\ rows = [e \in Events |-> <<>>]
  /\ sent = [e \in Events |-> <<>>]
  /\ replies = [e \in Events |-> <<>>]
  /\ log = [e \in Events |-> <<>>]
  /\ arrived = [e \in Events |-> <<>>]
  /\ previous = [e \in Events |-> NoRun]
  /\ checkRuns = <<>>
  /\ comments = <<>>

Init == InitHandlers /\ rendering = NotRendered

Next ==
  \/ \E e \in Events, a \in Actions, m \in Fields \cup {"none"} : Deliver(e, a, m)
  \/ \E e \in Events, ok \in BOOLEAN : AuthReturn(e, ok)
  \/ \E e \in Events, ok \in BOOLEAN : CreateReturn(e, ok)
  \/ \E e \in Events, i \in 1..Len(targets), st \in RuleStatuses : RuleResponse(e, i, st)
  \/ \E e \in Events, c \in BOOLEAN : TimerFires(e, c)
  \/ \E e \in Events, ok \in BOOLEAN : FinalizeReturn(e, ok)
  \/ \E e \in Events, ok \in BOOLEAN : CommentReturn(e, ok)
  \/ \E e \in Events, ok \in BOOLEAN : FallbackReturn(e, ok)

Spec == Init /\ [][Next]_vars

InitRender == InitHandlers /\ rendering \in [rows : Verdicts, done : {FALSE}, comment : {<<>>}]

NextRender == Render

SpecRender == InitRender /\ [][NextRender]_vars

\* Two deliveries handled at the same time: the handler is an async callback,
\* so a second invocation starts while the first one is at an await, and the
\* two advance in any order. Each invocation has its own locals.
Pair == {1, 2}

InitPair ==
  /\ variant \in {"index", "part_000"}
  /\ payload = [e \in Pair |-> NoPayload]
  /\ pc = [e \in Pair |-> "idle"]
  /\ resp = [e \in Pair |-> [i \in 1..Len(targets) |-> 0]]
  /\ check = [e \in Pair |-> 0]
  /\ rows = [e \in Pair |-> <<>>]
  /\ sent = [e \in Pair |-> <<>>]
  /\ replies = [e \in Pair |-> <<>>]
  /\ log = [e \in Pair |-> <<>>]
  /\ arrived = [e \in Pair |-> <<>>]
  /\ previous = [e \in Pair |-> NoRun]
  /\ checkRuns = <<>>
  /\ comments = <<>>
  /\ rendering = NotRendered

NextPair ==
  \/ \E e \in Pair, a \in Actions, m \in Fields \cup {"none"} : Deliver(e, a, m)
  \/ \E e \in Pair, ok \in BOOLEAN : AuthReturn(e, ok)
  \/ \E e \in Pair, ok \in BOOLEAN : CreateReturn(e, ok)
  \/ \E e \in Pair, i \in 1..Len(targets), st \in RuleStatuses : RuleResponse(e, i, st)
  \/ \E e \in Pair, c \in BOOLEAN : TimerFires(e, c)
  \/ \E e \in Pair, ok \in BOOLEAN : FinalizeReturn(e, ok)
  \/ \E e \in Pair, ok \in BOOLEAN : CommentReturn(e, ok)
  \/ \E e \in Pair, ok \in BOOLEAN : FallbackReturn(e, ok)

SpecPair == InitPair /\ [][NextPair]_vars

\* An awaited call of e other than a rule query returns or fails.
ReturnStep(e) ==
  \E ok \in BOOLEAN :
    \/ AuthReturn(e, ok)
    \/ CreateReturn(e, ok)
    \/ FinalizeReturn(e, ok)
    \/ CommentReturn(e, ok)
    \/ FallbackReturn(e, ok)

\* A rule query of e is answered.
QueryStep(e) == \E i \in 1..Len(targets), st \in RuleStatuses : RuleResponse(e, i, st)

\* The timer of e fires.
TimerStep(e) == \E c \in BOOLEAN : TimerFires(e, c)

\* Timers fire and every call but the rule queries is eventually answered; a
\* rule query may stay unanswered for ever: nothing in the code bounds it.
SpecQuerySilent ==
  Init /\ [][Next]_vars /\ \A e \in Events : WF_vars(ReturnStep(e) \/ TimerStep(e))

\* Every remote call eventually returns or fails.
SpecFair ==
  Init /\ [][Next]_vars /\ \A e \in Events : WF_vars(ReturnStep(e) \/ TimerStep(e) \/ QueryStep(e))

\* Runs in which every remote call succeeds (a 404 to a rule query is an
\* answer, not a failure), each delivery run a second time.
NextRerun ==
  \/ \E e \in Events : Deliver(e, "synchronize", "none")
  \/ \E e \in Events : AuthReturn(e, TRUE)
  \/ \E e \in Events : CreateReturn(e, TRUE)
  \/ \E e \in Events, i \in 1..Len(targets), st \in {200, 404} : RuleResponse(e, i, st)
  \/ \E e \in Events, c \in BOOLEAN : TimerFires(e, c)
  \/ \E e \in Events : FinalizeReturn(e, TRUE)
  \/ \E e \in Events : CommentReturn(e, TRUE)
  \/ \E e \in Events : Redeliver(e)

SpecRerun == Init /\ [][NextRerun]_vars

----------------------------------------------------------------------------
\* Vocabulary of the properties.

Ended(e) == pc[e] \in {"returned", "threw"}

Created(e) == check[e] # 0

OfKind(e, kind) == SelectSeq(sent[e], LAMBDA r : r.kind = kind)

Updates(e) == OfKind(e, "PATCH check-run")

\* The awaited call of the given kind was answered with a failure.
Failed(e, kind) ==
  \E k \in 1..Len(replies[e]) : ~replies[e][k].ok /\ sent[e][replies[e][k].req].kind = kind

\* A status fileExists does not turn into a result: neither a response nor a 404.
Unexpected(status) == status \notin {0, 200, 404}

ActionableEvent(e) == payload[e].action \in {"opened", "reopened", "synchronize"}

\* The pieces of a comment body before the blank line that ends its header.
Header(body) ==
  LET k == CHOOSE i \in 1..Len(body) : body[i] = "\n\n" /\ \A j \in 1..(i - 1) : body[j] # "\n\n"
  IN SubSeq(body, 1, k - 1)

----------------------------------------------------------------------------
\* C1: once the creation request has succeeded, the handler issues exactly
\* one finalize request (a PATCH with status=completed) before it returns:
\* never a second one at any time, and not none when it has ended.
C1_ExactlyOneFinalize ==
  \A e \in Events :
    Created(e) =>
      /\ Len(Updates(e)) <= 1
      /\ Ended(e) => Len(Updates(e)) = 1

\* C2: when the handler has ended after its check run was created, the
\* remote check run is completed and was moved to completed exactly once.
C2_CompletedExactlyOnce ==
  \A e \in Events :
    (Created(e) /\ Ended(e)) =>
      /\ checkRuns[check[e]].status = "completed"
      /\ Len(checkRuns[check[e]].applied) = 1

\* C3: once the finalize request carrying the computed report has succeeded,
\* the handler issues no further update request to that check run, and the
\* run keeps the computed conclusion, title and summary, also when the
\* comment post fails.
C3_CompletedIsTerminal ==
  \A e \in Events :
    (Created(e) /\ checkRuns[check[e]].applied # <<>>
                /\ checkRuns[check[e]].applied[1].site = "try") =>
      LET run == checkRuns[check[e]]
          first == run.applied[1]
      IN /\ Last(Updates(e)) = first
         /\ run.conclusion = first.conclusion
         /\ run.output.title = first.output.title
         /\ run.output.summary = first.output.summary

\* C4: if a rule query is answered with an error other than 404, a finalize
\* request is issued, every finalize request of the event carries
\* conclusion=failure and the generic error title, and no comment is posted.
C4_RuleErrorFailsClosed ==
  \A e \in Events :
    (variant = "index" /\ Created(e) /\ \E i \in 1..Len(targets) : Unexpected(resp[e][i])) =>
      /\ Updates(e) # <<>>
      /\ \A k \in 1..Len(Updates(e)) :
           /\ Updates(e)[k].status = "completed"
           /\ Updates(e)[k].conclusion = "failure"
           /\ Updates(e)[k].output.title = <<"Compliance (files): ERROR">>
      /\ OfKind(e, "POST comment") = <<>>
      /\ \A k \in 1..Len(comments) : comments[k].issue_number # payload[e].number

C4_Witness ==
  \E e \in Events :
    /\ pc[e] = "returned"
    /\ \E i \in 1..Len(targets) : resp[e][i] = 500
    /\ checkRuns[check[e]].conclusion = "failure"
    /\ checkRuns[check[e]].output.title = <<"Compliance (files): ERROR">>

\* C5: the finalize request built from the rule results carries
\* conclusion=success if and only if every rule result has pass=true, and
\* conclusion=failure otherwise; with both target files present it is success.
C5_ConclusionIffAllPass ==
  \A e \in Events :
    \A k \in 1..Len(Updates(e)) :
      LET u == Updates(e)[k] IN
      u.site = "try" =>
        /\ u.conclusion \in {"success", "failure"}
        /\ u.conclusion = "success" <=> \A i \in 1..Len(rows[e]) : rows[e][i].pass
        /\ (variant = "index" /\ resp[e] = <<200, 200>>) => u.conclusion = "success"

C5_Witness ==
  \E e \in Events :
    /\ variant = "index"
    /\ resp[e] = <<200, 200>>
    /\ pc[e] = "returned"
    /\ checkRuns[check[e]].conclusion = "success"

\* C6: for an action other than opened, reopened or synchronize the handler
\* returns without issuing any remote call.
C6_IgnoredActionNoRemoteCall ==
  \A e \in Events :
    (pc[e] # "idle" /\ ~ActionableEvent(e)) =>
      /\ pc[e] = "returned"
      /\ sent[e] = <<>>
      /\ replies[e] = <<>>
      /\ check[e] = 0
      /\ \A k \in 1..Len(checkRuns) : checkRuns[k].head_sha # payload[e].head_sha
      /\ \A k \in 1..Len(comments) : comments[k].issue_number # payload[e].number

C6_Witness ==
  \E e \in Events : payload[e].action = "closed" /\ pc[e] = "returned" /\ sent[e] = <<>>

\* C7: an actionable event lacking the installation id, the owner, the
\* repository name or the head commit SHA is dropped: the handler logs a
\* warning and returns without issuing any remote request and without an error.
C7_MalformedDroppedWithWarning ==
  \A e \in Events :
    (pc[e] # "idle" /\ ActionableEvent(e)
       /\ (payload[e].installation_id = 0 \/ payload[e].owner = ""
           \/ payload[e].repo = "" \/ payload[e].head_sha = "")) =>
      /\ pc[e] = "returned"
      /\ sent[e] = <<>>
      /\ \E k \in 1..Len(log[e]) : log[e][k].level = "error"

\* C8: if authentication or the check-run creation request fails, no check
\* run exists for the event and the handler issues no rule query, no finalize
\* request and no comment post.
C8_EarlyFailureNoRemoteEffect ==
  \A e \in Events :
    (Failed(e, "auth") \/ Failed(e, "POST check-runs")) =>
      /\ pc[e] = "threw"
      /\ check[e] = 0
      /\ \A k \in 1..Len(checkRuns) : checkRuns[k].head_sha # payload[e].head_sha
      /\ \A k \in 1..Len(sent[e]) : sent[e][k].kind \in {"auth", "POST check-runs"}
      /\ Last(replies[e]).req = Len(sent[e])

C8_Witness ==
  \E e \in Events : Failed(e, "POST check-runs") /\ pc[e] = "threw" /\ Len(sent[e]) = 2

\* C9: a rule query answered with 404 gives a rule result with pass=false and
\* does not abort verification: when every query is answered with a response
\* or a 404, a result is produced for every target, in target order, and the
\* first finalize request carries the computed report; the first finalize
\* request is the fallback one only if a query failed with another error.
C9_NotFoundIsAResult ==
  \A e \in Events :
    (variant = "index" /\ Created(e)) =>
      /\ (\A i \in 1..Len(targets) : resp[e][i] \in {200, 404}) =>
           /\ Len(rows[e]) = Len(targets)
           /\ \A i \in 1..Len(targets) :
                rows[e][i].name = targets[i] /\ (rows[e][i].pass <=> resp[e][i] = 200)
           /\ Updates(e) # <<>>
           /\ Updates(e)[1].site = "try"
           /\ Updates(e)[1].conclusion \in {"success", "failure"}
           /\ Updates(e)[1].output.text = <<"### Required files\n">> \o renderTable(rows[e])
      /\ (Updates(e) # <<>> /\ Updates(e)[1].site = "catch") =>
           \E i \in 1..Len(targets) : Unexpected(resp[e][i])

C9_Witness ==
  \E e \in Events :
    /\ variant = "index"
    /\ resp[e] = <<200, 404>>
    /\ pc[e] = "returned"
    /\ ~rows[e][2].pass
    /\ checkRuns[check[e]].applied[1].site = "try"
    /\ checkRuns[check[e]].applied[1].conclusion = "failure"

\* C10: the header of the rendered comment names, comma-joined after
\* "Missing: " and in order, exactly the rules whose pass is false, and names
\* no rule when all results pass; with README.md present and CONTRIBUTING.md
\* absent the header is "Missing: " followed by CONTRIBUTING.md.
C10_HeaderNamesFailingRules ==
  rendering.done =>
    LET rs == rendering.rows
        header == Header(rendering.comment)
        failing == SelectSeq(rs, LAMBDA r : ~r.pass)
    IN /\ \A i \in 1..Len(rs) : ~rs[i].pass => \E k \in 2..Len(header) : header[k] = rs[i].name
       /\ (\A i \in 1..Len(rs) : rs[i].pass) =>
            /\ Len(header) = 1
            /\ header[1] \notin {rs[i].name : i \in 1..Len(rs)}
       /\ (\E i \in 1..Len(rs) : ~rs[i].pass) =>
            /\ header[1] = "[x] **Compliance FAILED** -- Missing: "
            /\ Len(header) = 2 * Len(failing)
            /\ \A k \in 1..Len(failing) : header[2 * k] = failing[k].name
            /\ \A k \in 1..(Len(failing) - 1) : header[2 * k + 1] = ", "
       /\ rs = existence(<<200, 404>>) =>
            header = <<"[x] **Compliance FAILED** -- Missing: ", "CONTRIBUTING.md">>

C10_Witness ==
  /\ rendering.done
  /\ rendering.rows = existence(<<200, 404>>)
  /\ "CONTRIBUTING.md" \in Range(Header(rendering.comment))
  /\ "README.md" \notin Range(Header(rendering.comment))

\* C11: a finalize request that fails is logged and not re-raised: the step
\* in which a PATCH of a created check run is answered with a failure writes
\* an error line to the log and does not reject the handler, and a handler
\* whose check run was created never ends by raising.
C11_FinalizeFailureLoggedNotRaised ==
  [][\A e \in Events :
       /\ Created(e) => pc'[e] # "threw"
       /\ (/\ Len(replies'[e]) > Len(replies[e])
           /\ ~Last(replies'[e]).ok
           /\ sent[e][Last(replies'[e]).req].kind = "PATCH check-run") =>
            /\ Len(log'[e]) > Len(log[e])
            /\ Last(log'[e]).level = "error"]_vars

\* What two finalize requests must share to be the same report.
SameReport(u, v) ==
  /\ u.status = v.status
  /\ u.conclusion = v.conclusion
  /\ u.output.title = v.output.title
  /\ u.output.summary = v.output.summary
  /\ u.output.text = v.output.text

\* The second run of delivery e got the payload and the rule answers of the
\* first one and has sent its finalize request.
Rerun(e) ==
  /\ previous[e].ran
  /\ pc[e] # "idle"
  /\ payload[e] = previous[e].payload
  /\ resp[e] = previous[e].resp
  /\ Updates(e) # <<>>

\* C12 as stated: two runs of the handler on the same event, with the same
\* remote file state and all calls succeeding, send the same finalize
\* payload (conclusion, title, summary, table rows in order).
C12_RerunSameReport ==
  \A e \in Events : Rerun(e) => SameReport(Updates(e)[1], previous[e].updates[1])

\* C12 amended: the same, for the handler of index.js.
C12_RerunSameReportIndex ==
  \A e \in Events :
    (variant = "index" /\ Rerun(e)) =>
      /\ Len(Updates(e)) = 1 /\ Len(previous[e].updates) = 1
      /\ SameReport(Updates(e)[1], previous[e].updates[1])
      /\ Updates(e)[1].check_run_id # previous[e].updates[1].check_run_id

C12_Witness ==
  \E e \in Events :
    /\ variant = "index"
    /\ Rerun(e)
    /\ resp[e] = <<200, 404>>
    /\ arrived[e] = <<2, 1>>
    /\ pc[e] = "returned"
    /\ Len(checkRuns) = 2
    /\ checkRuns[1].output = checkRuns[2].output

\* The rule names a rendered text mentions, in the order it mentions them.
NamesIn(text) == SelectSeq(text, LAMBDA x : x \in Range(targets))

\* The pieces of a comment body after the blank line that ends its header.
TableOf(body) == SubSeq(body, Len(Header(body)) + 2, Len(body))

\* C13: the rule queries of one event are all sent before any is answered,
\* and whatever the order of the answers, the rule results, the table of the
\* report and the table of the comment list the targets in declared order.
C13_DeclaredOrder ==
  \A e \in Events :
    variant = "index" =>
      /\ Len(OfKind(e, "GET contents")) \in {0, Len(targets)}
      /\ arrived[e] # <<>> => Len(OfKind(e, "GET contents")) = Len(targets)
      /\ rows[e] # <<>> => [i \in 1..Len(rows[e]) |-> rows[e][i].name] = targets
      /\ \A k \in 1..Len(sent[e]) :
           /\ (sent[e][k].kind = "PATCH check-run" /\ sent[e][k].site = "try") =>
                NamesIn(sent[e][k].output.text) = targets
           /\ sent[e][k].kind = "POST comment" =>
                NamesIn(TableOf(sent[e][k].body)) = targets

C13_Witness ==
  \E e \in Events :
    /\ variant = "index"
    /\ arrived[e] = <<2, 1>>
    /\ OfKind(e, "POST comment") # <<>>
    /\ NamesIn(TableOf(OfKind(e, "POST comment")[1].body)) = <<"README.md", "CONTRIBUTING.md">>

\* Rule query i of e has been sent and not answered.
Outstanding(e, i) == Len(OfKind(e, "GET contents")) >= i /\ resp[e][i] = 0

\* C14: no finalize request, computed or fallback, has been issued while a
\* rule query of the event is still outstanding.
C14_FinalizeAfterAllQueries ==
  \A e \in Events :
    Updates(e) # <<>> => \A i \in 1..Len(targets) : ~Outstanding(e, i)

\* C15: every remote call is bounded by a timeout, so once the check run is
\* created a finalize request is eventually issued, also when a rule query is
\* never answered.
C15_FinalizeEventuallyIssued ==
  \A e \in Events : Created(e) ~> (Updates(e) # <<>>)

\* C16: handlers running at the same time do not interfere. Every update
\* request of a handler names the check run that this handler's own creation
\* request made (the run of its own head SHA), no two handlers hold the same
\* check run, every comment request names the handler's own pull request, and
\* every update a check run has received came from the handler that created it.
C16_NoInterference ==
  \A e \in DOMAIN pc :
    /\ \A k \in 1..Len(sent[e]) :
         /\ sent[e][k].kind = "PATCH check-run" =>
              /\ check[e] \in DOMAIN checkRuns
              /\ sent[e][k].check_run_id = check[e]
              /\ checkRuns[check[e]].head_sha = payload[e].head_sha
         /\ sent[e][k].kind = "POST comment" => sent[e][k].issue_number = payload[e].number
    /\ \A f \in DOMAIN pc : (f # e /\ check[e] # 0) => check[f] # check[e]
    /\ check[e] # 0 =>
         \A k \in 1..Len(checkRuns[check[e]].applied) :
           \E j \in 1..Len(sent[e]) : sent[e][j] = checkRuns[check[e]].applied[k]

\* Two handlers are under way together, the one that created its check run
\* second has sent its update first, and the other has sent one too.
C16_Witness ==
  \E e, f \in DOMAIN pc :
    /\ e # f
    /\ check[e] # 0 /\ check[f] > check[e]
    /\ Updates(e) # <<>> /\ Updates(f) # <<>>
    /\ Len(checkRuns[check[f]].applied) > 0
    /\ Len(checkRuns[check[e]].applied) = 0
    /\ pc[e] \in {"finalize", "fallback"}

\* C17: when every remote call eventually returns or fails, the handler of
\* every delivered event eventually ends, and a handler that has ended after
\* its check run was created has issued at least one update request.
C17_EndsWithFinalize ==
  \A e \in Events :
    /\ (pc[e] # "idle") ~> Ended(e)
    /\ [](Ended(e) /\ Created(e) => Updates(e) # <<>>)

\* A handler has ended after creating its check run and failing a rule query.
C17_Witness ==
  \E e \in Events :
    /\ Ended(e) /\ Created(e)
    /\ \E i \in 1..Len(targets) : Unexpected(resp[e][i])
    /\ Len(Updates(e)) = 1

\* The requests of e that post a comment, by position in sent[e].
CommentsAt(e) == {k \in 1..Len(sent[e]) : sent[e][k].kind = "POST comment"}

\* The request at position k of sent[e] was answered with success.
Succeeded(e, k) == \E j \in 1..Len(replies[e]) : replies[e][j].req = k /\ replies[e][j].ok

\* C18: a handler posts at most one comment, and only right after the update
\* carrying the computed report was answered with success: at that point the
\* check run is completed, no update of this handler has failed and no
\* fallback update has been sent. The pull request receives at most one
\* comment from the event.
C18_CommentOnlyAfterFinalize ==
  \A e \in Events :
    /\ Cardinality(CommentsAt(e)) <= 1
    /\ \A k \in CommentsAt(e) :
         /\ k > 1
         /\ sent[e][k - 1].kind = "PATCH check-run"
         /\ sent[e][k - 1].site = "try"
         /\ Succeeded(e, k - 1)
         /\ checkRuns[check[e]].status = "completed"
         /\ \A j \in 1..(k - 1) :
              sent[e][j].kind = "PATCH check-run" =>
                sent[e][j].site = "try" /\ Succeeded(e, j)
    /\ Cardinality({k \in 1..Len(comments) :
                      comments[k].issue_number = payload[e].number}) <= 1

\* The comment has been posted and the handler has returned.
C18_Witness ==
  \E e \in Events :
    /\ CommentsAt(e) # {}
    /\ pc[e] = "returned"
    /\ \E k \in 1..Len(comments) : comments[k].issue_number = payload[e].number

\* No request of the sequence carries success after one that carries failure.
NoPassAfterFail(us) ==
  \A j, k \in 1..Len(us) :
    (j < k /\ us[j].conclusion = "failure") => us[k].conclusion # "success"

\* C19: the update requests of a handler fail closed in sequence. An update
\* sent by the catch block carries conclusion failure, at most one update of
\* the handler carries success, none carries success after one that carried
\* failure, and the updates a check run has received never take its
\* conclusion from failure to success.
C19_FailClosedSequence ==
  /\ \A e \in Events :
       /\ \A k \in 1..Len(Updates(e)) :
            Updates(e)[k].site = "catch" => Updates(e)[k].conclusion = "failure"
       /\ Cardinality({k \in 1..Len(Updates(e)) : Updates(e)[k].conclusion = "success"}) <= 1
       /\ NoPassAfterFail(Updates(e))
  /\ \A id \in DOMAIN checkRuns :
       /\ NoPassAfterFail(checkRuns[id].applied)
       /\ Cardinality({k \in 1..Len(checkRuns[id].applied) :
                         checkRuns[id].applied[k].conclusion = "success"}) <= 1

\* A check run has received a success and then the fallback failure.
C19_Witness ==
  \E e \in Events :
    /\ Created(e)
    /\ Len(checkRuns[check[e]].applied) = 2
    /\ checkRuns[check[e]].applied[1].conclusion = "success"
    /\ checkRuns[check[e]].applied[2].site = "catch"
    /\ checkRuns[check[e]].conclusion = "failure"

====
